---- MODULE Spec2Model ----
(***************************************************************************)
(* FormService of ngx-nested-forms (ngx-nested-forms.service.ts) and the   *)
(* demo components that use it.                                            *)
(*                                                                         *)
(* A string is the sequence of its pieces, the piece "." being the path    *)
(* delimiter and every other piece a run of characters without a dot:      *)
(* 'demoForm.address' is <<"demoForm", ".", "address">> and '' is <<>>.    *)
(* Control names used as inputs are names that are not array indices, so   *)
(* Object.keys lists an object's keys in insertion order.                  *)
(*                                                                         *)
(* Controls live in a heap indexed by identity: 0 is mainForm, and the     *)
(* control handed to the call that appends history entry i has identity i. *)
(* A control is a FormGroup ("group") or a FormControl ("leaf"); of the    *)
(* Angular control only what the service reads is kept: the ordered        *)
(* `controls` object, the DISABLED status and the parent link.             *)
(*                                                                         *)
(* Spec is the service used by any caller, SpecDemo the demo components,   *)
(* SpecTwo two services whose controls live in the one heap.               *)
(***************************************************************************)
EXTENDS Integers, Sequences, FiniteSets, TLC

VARIABLES
    heap,          \* identity -> [kind, disabled, controls, parent]
    eventHistory,  \* FormService.eventHistory
    observers,     \* formEventSubject.observers, in subscription order
    subs,          \* every subscriber ever made: handler, closed, what it received
    stack,         \* Subject.next calls in progress, innermost last
    comp,          \* demo components: lifecycle position and subscription
    last,          \* the service call made by the last step, and its result
    other          \* a second FormService: its eventHistory, observers, subscribers

vars == <<heap, eventHistory, observers, subs, stack, comp, last, other>>

----------------------------------------------------------------------------
(* Bounds *)

\* longest event history explored (one control is created per entry)
MaxEvents == 2
\* largest insertAtIndex tried
MaxIndex == 1
\* observers a caller subscribes
MaxSubs == 1

----------------------------------------------------------------------------
(* Strings and paths *)

Dot == "."

Null == -1          \* null / undefined result
Undefined == -2     \* an option that was not passed
MainForm == 0

RECURSIVE SplitAcc(_, _, _)
SplitAcc(s, done, cur) ==
    IF s = <<>> THEN Append(done, cur)
    ELSE IF Head(s) = Dot THEN SplitAcc(Tail(s), Append(done, cur), <<>>)
    ELSE SplitAcc(Tail(s), done, Append(cur, Head(s)))

\* String.prototype.split('.'): never empty, ''.split('.') is ['']
Split(s) == SplitAcc(s, <<>>, <<>>)

RECURSIVE Join(_)
\* Array.prototype.join('.')
Join(segs) ==
    IF segs = <<>> THEN <<>>
    ELSE IF Len(segs) = 1 THEN segs[1]
    ELSE segs[1] \o <<Dot>> \o Join(Tail(segs))

\* a path argument: a string, or an array of strings
StrPath(s) == [type |-> "string", v |-> s]
ArrPath(a) == [type |-> "array", v |-> a]

\* a normalizePath that takes a string as one segment
normalizePathWhole(path) ==
    IF path.type = "string" THEN <<path.v>> ELSE path.v

normalizePath(path) ==
    IF path.type = "string" THEN Split(path.v) ELSE path.v

----------------------------------------------------------------------------
(* The Angular controls the service works on *)

NewControl(kind, disabled) ==
    [kind |-> kind, disabled |-> disabled, controls |-> <<>>, parent |-> Null]

\* Object.keys(group.controls)
ObjectKeys(cs) == [i \in 1..Len(cs) |-> cs[i].key]

HasOwn(cs, key) == \E i \in 1..Len(cs) : cs[i].key = key

Lookup(cs, key) == cs[CHOOSE i \in 1..Len(cs) : cs[i].key = key].ctrl

\* obj[key] = ctrl: a present key keeps its place, a new key goes last
ObjSet(cs, key, ctrl) ==
    IF HasOwn(cs, key)
    THEN [i \in 1..Len(cs) |-> IF cs[i].key = key THEN [key |-> key, ctrl |-> ctrl] ELSE cs[i]]
    ELSE Append(cs, [key |-> key, ctrl |-> ctrl])

\* delete obj[key]
ObjDelete(cs, key) == SelectSeq(cs, LAMBDA e : e.key # key)

\* AbstractControl._allControlsDisabled
AllControlsDisabled(h, c) ==
    IF h[c].kind = "group"
    THEN /\ \A i \in 1..Len(h[c].controls) : h[h[c].controls[i].ctrl].disabled
         /\ (Len(h[c].controls) > 0 \/ h[c].disabled)
    ELSE h[c].disabled

RECURSIVE updateValueAndValidity(_, _)
\* AbstractControl.updateValueAndValidity(): the status is recomputed from the
\* children, then the parent is updated in turn
updateValueAndValidity(h, c) ==
    LET h1 == [h EXCEPT ![c].disabled = AllControlsDisabled(h, c)]
    IN  IF h[c].parent = Null THEN h1 ELSE updateValueAndValidity(h1, h[c].parent)

\* a registerControl that replaces the control a taken name holds
registerControlReplacing(h, g, name, c) ==
    [h EXCEPT ![g].controls = ObjSet(@, name, c), ![c].parent = g]

\* FormGroup.registerControl: a name already taken keeps its control
registerControl(h, g, name, c) ==
    IF HasOwn(h[g].controls, name) THEN h
    ELSE [h EXCEPT ![g].controls = Append(@, [key |-> name, ctrl |-> c]),
                   ![c].parent = g]

\* FormGroup.addControl
addControl(h, g, name, c) == updateValueAndValidity(registerControl(h, g, name, c), g)

\* FormGroup.removeControl
removeControl(h, g, name) ==
    updateValueAndValidity([h EXCEPT ![g].controls = ObjDelete(@, name)], g)

\* a setControl that keeps the control a taken name holds
setControlKeeping(h, g, name, c) == updateValueAndValidity(registerControl(h, g, name, c), g)

\* FormGroup.setControl
setControl(h, g, name, c) ==
    updateValueAndValidity(
        registerControl([h EXCEPT ![g].controls = ObjDelete(@, name)], g, name, c), g)

\* FormGroup.contains: an own key whose control is enabled
contains(h, g, name) ==
    /\ HasOwn(h[g].controls, name)
    /\ ~h[Lookup(h[g].controls, name)].disabled

RECURSIVE Find(_, _, _)
Find(h, c, names) ==
    IF names = <<>> THEN c
    ELSE IF c # Null /\ h[c].kind = "group" /\ HasOwn(h[c].controls, Head(names))
         THEN Find(h, Lookup(h[c].controls, Head(names)), Tail(names))
         ELSE Null

\* AbstractControl.get(key) for a string key: the key is split at its dots
Get(h, c, key) == Find(h, c, Split(key))

RECURSIVE Descendants(_, _)
Descendants(h, c) ==
    {c} \cup UNION { Descendants(h, h[c].controls[i].ctrl) : i \in 1..Len(h[c].controls) }

\* AbstractControl.disable({onlySelf: true, emitEvent: false}): the control and
\* everything below it become DISABLED, no ancestor is updated
disableOnlySelf(h, c) ==
    LET ds == Descendants(h, c)
    IN  [x \in DOMAIN h |-> IF x \in ds THEN [h[x] EXCEPT !.disabled = TRUE] ELSE h[x]]

----------------------------------------------------------------------------
(* FormService: lookups *)

RECURSIVE ControlFromEnabled(_, _, _)
\* a lookup that, as FormGroup.contains, takes a disabled control for absent
ControlFromEnabled(h, cur, keys) ==
    IF keys = <<>> THEN cur
    ELSE LET c == Get(h, cur, Head(keys))
         IN  IF c # Null /\ ~h[c].disabled
             THEN ControlFromEnabled(h, c, Tail(keys))
             ELSE Null

RECURSIVE ControlFrom(_, _, _)
ControlFrom(h, cur, keys) ==
    IF keys = <<>> THEN cur
    ELSE LET c == Get(h, cur, Head(keys))
         IN  IF c # Null THEN ControlFrom(h, c, Tail(keys)) ELSE Null

\* FormService.getControl
getControl(h, path) == ControlFrom(h, MainForm, normalizePath(path))

RECURSIVE NestedFrom(_, _, _)
NestedFrom(h, cur, keys) ==
    IF keys = <<>> THEN cur
    ELSE LET c == Get(h, cur, Head(keys))
         IN  IF c # Null /\ h[c].kind = "group"
             THEN NestedFrom(h, c, Tail(keys))
             ELSE Null

\* a getNestedForm that, as getControl, takes any control for the group
getNestedFormAny(h, path) == ControlFrom(h, MainForm, normalizePath(path))

\* FormService.getNestedForm: every segment must name a FormGroup
getNestedForm(h, path) == NestedFrom(h, MainForm, normalizePath(path))

----------------------------------------------------------------------------
(* FormService: registration *)

FormEvent(type, path, control) == [type |-> type, path |-> path, control |-> control]

\* the null a registration returns instead of an event
NoEvent == FormEvent("null", <<>>, Null)

\* the optionsOrOverwrite argument: a boolean, or an options object
\* (hasOverwrite tells whether the object has an overwrite property)
BoolOption(b) ==
    [type |-> "boolean", hasOverwrite |-> TRUE, overwrite |-> b, insertAtIndex |-> Undefined]
ObjOption(has, ow, idx) ==
    [type |-> "object", hasOverwrite |-> has, overwrite |-> ow, insertAtIndex |-> idx]

\* an overwrite that is read from an options object only
OverwriteOfObject(opt) ==
    opt.type = "object" /\ opt.hasOverwrite /\ opt.overwrite

\* typeof optionsOrOverwrite === 'boolean' ? optionsOrOverwrite
\*                                         : optionsOrOverwrite.overwrite ?? false
OverwriteOf(opt) ==
    IF opt.type = "boolean" THEN opt.overwrite
    ELSE IF opt.hasOverwrite THEN opt.overwrite ELSE FALSE

InsertAtIndexOf(opt) ==
    IF opt.type = "object" THEN opt.insertAtIndex ELSE Undefined

\* the default of the optionsOrOverwrite parameter
DefaultOptions == BoolOption(FALSE)

RECURSIVE BuildNewControls(_, _, _, _, _, _)
\* keys.forEach((key, i) => ...) of registerFormElement, i counted from 0
BuildNewControls(cs, i, insertAtIndex, controlName, control, acc) ==
    IF i >= Len(cs) THEN acc
    ELSE LET a1 == IF i = insertAtIndex THEN ObjSet(acc, controlName, control) ELSE acc
             a2 == ObjSet(a1, cs[i + 1].key, cs[i + 1].ctrl)
         IN  BuildNewControls(cs, i + 1, insertAtIndex, controlName, control, a2)

NewControls(cs, insertAtIndex, controlName, control) ==
    LET built == BuildNewControls(cs, 0, insertAtIndex, controlName, control, <<>>)
    IN  IF insertAtIndex >= Len(cs) THEN ObjSet(built, controlName, control) ELSE built

RECURSIVE RemoveAll(_, _, _)
RemoveAll(h, g, keys) ==
    IF keys = <<>> THEN h ELSE RemoveAll(removeControl(h, g, Head(keys)), g, Tail(keys))

\* a rebuild that adds only the first of the new controls back
AddFirst(h, g, entries) ==
    IF entries = <<>> THEN h
    ELSE addControl(h, g, Head(entries).key, Head(entries).ctrl)

RECURSIVE AddAll(_, _, _)
AddAll(h, g, entries) ==
    IF entries = <<>> THEN h
    ELSE AddAll(addControl(h, g, Head(entries).key, Head(entries).ctrl), g, Tail(entries))

\* the controls of formGroup rebuilt with the new control at insertAtIndex
InsertAt(h, g, controlName, control, insertAtIndex) ==
    LET newControls == NewControls(h[g].controls, insertAtIndex, controlName, control)
    IN  AddAll(RemoveAll(h, g, ObjectKeys(h[g].controls)), g, newControls)

\* the mutation of registerFormElement once formGroup is resolved and the
\* control may be attached
Attach(h, g, controlName, control, exists, insertAtIndex) ==
    LET h1 == IF exists THEN removeControl(h, g, controlName) ELSE h
    IN  IF insertAtIndex # Undefined /\ insertAtIndex >= 0
        THEN InsertAt(h1, g, controlName, control, insertAtIndex)
        ELSE addControl(h1, g, controlName, control)

\* FormService.registerFormElement on heap h, which already holds `control`:
\* the heap it leaves and the event it returns (NoEvent when it returns null)
registerFormElement(h, path, controlName, control, optionsOrOverwrite) ==
    LET normalizedPath == normalizePath(path)
        formGroup == getNestedForm(h, ArrPath(normalizedPath))
        overwrite == OverwriteOf(optionsOrOverwrite)
        insertAtIndex == InsertAtIndexOf(optionsOrOverwrite)
    IN  IF formGroup = Null THEN [heap |-> h, event |-> NoEvent]
        ELSE LET exists == contains(h, formGroup, controlName)
             IN  IF ~exists \/ overwrite
                 THEN [heap  |-> Attach(h, formGroup, controlName, control, exists, insertAtIndex),
                       event |-> FormEvent("formElement",
                                           Join(Append(normalizedPath, controlName)), control)]
                 ELSE [heap |-> h, event |-> NoEvent]

\* FormService.removeFormElement: the heap it leaves, its result, and the path
\* argument as the caller finds it afterwards. normalizePath returns an array
\* argument itself, so keys.pop() takes the last element off the caller's
\* array; a string argument is split into a new array.
removeFormElement(h, path) ==
    LET keys == normalizePath(path)
        popped == Len(keys) > 0
        controlName == IF popped THEN keys[Len(keys)] ELSE <<>>
        rest == IF popped THEN SubSeq(keys, 1, Len(keys) - 1) ELSE keys
        parentGroup == getNestedForm(h, ArrPath(rest))
        after == IF path.type = "array" THEN ArrPath(rest) ELSE path
    IN  IF /\ parentGroup # Null
           /\ popped /\ controlName # <<>>
           /\ contains(h, parentGroup, controlName)
        THEN [heap |-> removeControl(h, parentGroup, controlName), ret |-> TRUE,
              path |-> after]
        ELSE [heap |-> h, ret |-> FALSE, path |-> after]

RECURSIVE DisableEach(_, _, _, _)
DisableEach(h, form, names, exceptions) ==
    IF names = <<>> THEN h
    ELSE LET c == Get(h, form, Head(names))
             h1 == IF Head(names) \notin exceptions /\ c # Null
                   THEN disableOnlySelf(h, c) ELSE h
         IN  DisableEach(h1, form, Tail(names), exceptions)

\* a disableAllExcept that heeds no exception
disableAllExceptNone(h, formPath, exceptions) ==
    LET form == getControl(h, formPath)
    IN  IF form = Null \/ h[form].kind # "group" THEN h
        ELSE DisableEach(h, form, ObjectKeys(h[form].controls), {})

\* a disableAllExcept that works on mainForm when formPath names no FormGroup
disableAllExceptOrMain(h, formPath, exceptions) ==
    LET form == getControl(h, formPath)
    IN  IF form = Null \/ h[form].kind # "group"
        THEN DisableEach(h, MainForm, ObjectKeys(h[MainForm].controls), exceptions)
        ELSE DisableEach(h, form, ObjectKeys(h[form].controls), exceptions)

\* FormService.disableAllExcept
disableAllExcept(h, formPath, exceptions) ==
    LET form == getControl(h, formPath)
    IN  IF form = Null \/ h[form].kind # "group" THEN h
        ELSE DisableEach(h, form, ObjectKeys(h[form].controls), exceptions)

----------------------------------------------------------------------------
(* State *)

\* the step just taken: the call made, whether it took effect, by whom
\* (0: a caller outside any handler; otherwise the subscriber whose handler ran)
Step(op, ok, by) == [op |-> op, ok |-> ok, by |-> by]

Components == {"demoApp", "personalInfo", "address", "preferences"}

\* the name the demo registers its root form under
DemoForm == <<"demoForm">>

\* the fields of a FormService its constructor has just left, mainForm apart:
\* no event, no observer
NewService == [eventHistory |-> <<>>, observers |-> <<>>, subs |-> <<>>]

Init ==
    /\ heap = (MainForm :> NewControl("group", FALSE))
    /\ eventHistory = <<>>
    /\ observers = <<>>
    /\ subs = <<>>
    /\ stack = <<>>
    /\ comp = [c \in Components |-> [pc |-> "new", sub |-> 0]]
    /\ last = Step("none", FALSE, 0)
    /\ other = NewService

\* a control handed to a call is a new one; its identity is the index the
\* call's history entry gets
WithControl(h, n, kind, disabled) == (n :> NewControl(kind, disabled)) @@ h

\* no call is in progress and the previous call's record has been dropped
Idle == stack = <<>> /\ last.op = "none"

----------------------------------------------------------------------------
(* The event stream: rxjs Subject *)

\* a broadcast that hands the event to every observer twice
FrameTwice(ev, copy, cont) == [ev |-> ev, copy |-> copy \o copy, i |-> 1, cont |-> cont]

\* the broadcast of history entry ev: the observers snapshotted, the position
\* of the next one to invoke, the subscriber whose handler emitted the event
Frame(ev, copy, cont) == [ev |-> ev, copy |-> copy, i |-> 1, cont |-> cont]

\* Subject.next(event) for history entry ev: the observers are snapshotted;
\* `cont` is the subscriber whose handler made the call (0: no handler did)
SubjectNext(stk, obs, ev, cont) ==
    IF obs = <<>> /\ cont = 0 THEN stk ELSE Append(stk, Frame(ev, obs, cont))

\* Subscription.unsubscribe: the subscriber is closed and leaves the list
Closed(ss, s, now) ==
    [ss EXCEPT ![s].closed = TRUE,
               ![s].unsubAt = IF ss[s].closed THEN @ ELSE now]

\* an unsubscribe that takes the first observer off the list, whoever it is
RemovedFirst(obs, s) == IF obs = <<>> THEN obs ELSE Tail(obs)

Removed(obs, s) == SelectSeq(obs, LAMBDA x : x # s)

\* a subscriber: subAt and unsubAt are the history lengths at subscription and
\* at unsubscription, received the history indices its handler was invoked with
NewSub(handler, now) ==
    [handler |-> handler, closed |-> FALSE, received |-> <<>>,
     subAt |-> now, unsubAt |-> Null]

----------------------------------------------------------------------------
(* The calls as functions of the service's state *)

\* a registerRootForms that puts its event first in the history
RootCallPrepending(h, hist, stk, obs, name, disabled) ==
    [heap         |-> setControl(WithControl(h, Len(hist) + 1, "group", disabled),
                                 MainForm, name, Len(hist) + 1),
     eventHistory |-> <<FormEvent("form", name, Undefined)>> \o hist,
     stack        |-> SubjectNext(stk, obs, Len(hist) + 1, 0),
     event        |-> FormEvent("form", name, Undefined)]

\* registerRootForms(name, formGroup) with a new FormGroup
RootCall(h, hist, stk, obs, name, disabled) ==
    LET n == Len(hist) + 1
        event == FormEvent("form", name, Undefined)
    IN  [heap         |-> setControl(WithControl(h, n, "group", disabled), MainForm, name, n),
         eventHistory |-> Append(hist, event),
         stack        |-> SubjectNext(stk, obs, n, 0),
         event        |-> event]

\* registerFormElement(path, controlName, control, optionsOrOverwrite) with a
\* new control of the given kind, called by `by`
ElementCall(h, hist, stk, obs, path, controlName, kind, disabled, options, by) ==
    LET n == Len(hist) + 1
        r == registerFormElement(WithControl(h, n, kind, disabled), path, controlName, n, options)
    IN  IF r.event = NoEvent
        THEN [heap         |-> [c \in DOMAIN h |-> r.heap[c]],
              eventHistory |-> hist,
              stack        |-> stk,
              event        |-> NoEvent]
        ELSE [heap         |-> r.heap,
              eventHistory |-> Append(hist, r.event),
              stack        |-> SubjectNext(stk, obs, n, by),
              event        |-> r.event]

\* a removal that, as a registration does, logs and broadcasts an event
RemoveCallEmitting(h, hist, stk, obs, path) ==
    [heap         |-> removeFormElement(h, path).heap,
     eventHistory |-> Append(hist, FormEvent("formElement", Join(normalizePath(path)), Null)),
     stack        |-> SubjectNext(stk, obs, Len(hist) + 1, 0),
     ret          |-> removeFormElement(h, path).ret]

\* removeFormElement(path): it touches neither eventHistory nor formEventSubject
RemoveCall(h, hist, stk, obs, path) ==
    [heap         |-> removeFormElement(h, path).heap,
     eventHistory |-> hist,
     stack        |-> stk,
     ret          |-> removeFormElement(h, path).ret]

\* a disableAllExcept that records an event and broadcasts it
DisableCallEmitting(h, hist, stk, obs, formPath, exceptions) ==
    [heap         |-> disableAllExcept(h, formPath, exceptions),
     eventHistory |-> Append(hist, FormEvent("form", Join(normalizePath(formPath)), Undefined)),
     stack        |-> SubjectNext(stk, obs, Len(hist) + 1, 0)]

\* disableAllExcept(formPath, exceptions): it touches neither eventHistory nor
\* formEventSubject
DisableCall(h, hist, stk, obs, formPath, exceptions) ==
    [heap         |-> disableAllExcept(h, formPath, exceptions),
     eventHistory |-> hist,
     stack        |-> stk]

----------------------------------------------------------------------------
(* Calls made from outside any handler *)

RegisterRootForms(name, disabled) ==
    /\ Idle
    /\ \E r \in {RootCall(heap, eventHistory, stack, observers, name, disabled)} :
           /\ heap' = r.heap
           /\ eventHistory' = r.eventHistory
           /\ stack' = r.stack
    /\ last' = Step("registerRootForms", TRUE, 0)
    /\ UNCHANGED <<observers, subs, comp, other>>

RegisterFormElement(path, controlName, kind, disabled, options) ==
    /\ Idle
    /\ \E r \in {ElementCall(heap, eventHistory, stack, observers,
                            path, controlName, kind, disabled, options, 0)} :
           /\ heap' = r.heap
           /\ eventHistory' = r.eventHistory
           /\ stack' = r.stack
           /\ last' = Step("registerFormElement", r.event # NoEvent, 0)
    /\ UNCHANGED <<observers, subs, comp, other>>

RemoveFormElement(path) ==
    /\ Idle
    /\ \E r \in {RemoveCall(heap, eventHistory, stack, observers, path)} :
           /\ heap' = r.heap
           /\ eventHistory' = r.eventHistory
           /\ stack' = r.stack
           /\ last' = Step("removeFormElement", r.ret, 0)
    /\ UNCHANGED <<observers, subs, comp, other>>

DisableAllExcept(formPath, exceptions) ==
    /\ Idle
    /\ formPath.type = "string"
    /\ \E r \in {DisableCall(heap, eventHistory, stack, observers, formPath, exceptions)} :
           /\ heap' = r.heap
           /\ eventHistory' = r.eventHistory
           /\ stack' = r.stack
    /\ last' = Step("disableAllExcept", TRUE, 0)
    /\ UNCHANGED <<observers, subs, comp, other>>

----------------------------------------------------------------------------
(* Delivery of an event to the observers snapshotted by Subject.next *)

Top == stack[Len(stack)]

Advanced == [stack EXCEPT ![Len(stack)].i = @ + 1]

\* a handler that answers every event, whatever its type and path
AnswersAny(handler, ev) == handler # "log"

\* the handler of a child component answers the event of the root form
Answers(handler, ev) ==
    handler # "log" /\ ev.type = "form" /\ ev.path = DemoForm

\* an AddressComponent that asks for index 0
OptionsOfFirst(handler) ==
    CASE handler = "personalInfo" -> DefaultOptions
      [] handler = "address"      -> ObjOption(FALSE, FALSE, 0)
      [] handler = "preferences"  -> ObjOption(FALSE, FALSE, 2)

\* the options the child component passes to registerFormElement
OptionsOf(handler) ==
    CASE handler = "personalInfo" -> DefaultOptions
      [] handler = "address"      -> ObjOption(FALSE, FALSE, 1)
      [] handler = "preferences"  -> ObjOption(FALSE, FALSE, 2)

\* Subject.next hands the event to the next observer of its snapshot: a closed
\* subscriber ignores it; a logging handler calls nothing; the handler of a
\* child component calls registerFormElement('demoForm', <its name>, form) on
\* the root form's event, then unsubscribes (at once when the call returned
\* null, else when the call's own broadcast has returned)
Deliver ==
    /\ stack # <<>>
    /\ Top.i <= Len(Top.copy)
    /\ LET s == Top.copy[Top.i]
           got == [subs EXCEPT ![s].received = Append(@, Top.ev)]
       IN  IF subs[s].closed
           THEN /\ stack' = Advanced
                /\ last' = Step("skip", FALSE, s)
                /\ UNCHANGED <<heap, eventHistory, observers, subs>>
           ELSE IF ~Answers(subs[s].handler, eventHistory[Top.ev])
           THEN /\ stack' = Advanced
                /\ subs' = got
                /\ last' = Step("deliver", TRUE, s)
                /\ UNCHANGED <<heap, eventHistory, observers>>
           ELSE \E r \in {ElementCall(heap, eventHistory, Advanced, observers,
                                      StrPath(DemoForm), <<subs[s].handler>>,
                                      "group", FALSE, OptionsOf(subs[s].handler), s)} :
                    /\ heap' = r.heap
                    /\ eventHistory' = r.eventHistory
                    /\ stack' = r.stack
                    /\ IF r.event = NoEvent
                       THEN /\ subs' = Closed(got, s, Len(eventHistory))
                            /\ observers' = Removed(observers, s)
                       ELSE /\ subs' = got
                            /\ UNCHANGED observers
                    /\ last' = Step("answer", r.event # NoEvent, s)
    /\ UNCHANGED <<comp, other>>

\* Subject.next returns; the handler that made the call goes on and unsubscribes
Return ==
    /\ stack # <<>>
    /\ Top.i > Len(Top.copy)
    /\ stack' = SubSeq(stack, 1, Len(stack) - 1)
    /\ IF Top.cont = 0
       THEN UNCHANGED <<subs, observers>>
       ELSE /\ subs' = Closed(subs, Top.cont, Len(eventHistory))
            /\ observers' = Removed(observers, Top.cont)
    /\ last' = Step("return", TRUE, Top.cont)
    /\ UNCHANGED <<heap, eventHistory, comp, other>>

\* the outermost call has returned to its caller: its record is dropped
Forget ==
    /\ stack = <<>>
    /\ last.op # "none"
    /\ last' = Step("none", FALSE, 0)
    /\ UNCHANGED <<heap, eventHistory, observers, subs, stack, comp, other>>

----------------------------------------------------------------------------
(* Observers *)

\* getFormEventObservable().subscribe(handler) on the service's state
Subscribed(ss, obs, hist, handler) ==
    [subs |-> Append(ss, NewSub(handler, Len(hist))), observers |-> Append(obs, Len(ss) + 1)]

\* a caller subscribes an observer that only logs
Subscribe ==
    /\ Idle
    /\ Len(subs) < MaxSubs
    /\ subs' = Subscribed(subs, observers, eventHistory, "log").subs
    /\ observers' = Subscribed(subs, observers, eventHistory, "log").observers
    /\ last' = Step("subscribe", TRUE, Len(subs) + 1)
    /\ UNCHANGED <<heap, eventHistory, stack, comp, other>>

----------------------------------------------------------------------------
(* The library on its own: any caller, and the logging observer *)

Names == {<<"a">>, <<"b">>}

Segments == {<<>>} \cup {<<n>> : n \in Names} \cup {<<n, m>> : n \in Names, m \in Names}

\* the paths callers pass: dotted strings (with the empty string), and the
\* empty array, which names mainForm itself
PathInputs == {StrPath(Join(segs)) : segs \in Segments} \cup {ArrPath(<<>>)}

OptionInputs ==
    {BoolOption(b) : b \in BOOLEAN}
    \cup {ObjOption(FALSE, FALSE, i) : i \in 0..MaxIndex}
    \cup {ObjOption(TRUE, TRUE, i) : i \in 0..MaxIndex}

\* new FormGroup({}), or new FormControl('') disabled by its owner
ControlInputs == {[kind |-> "group", disabled |-> FALSE], [kind |-> "leaf", disabled |-> TRUE]}

Bounded == Len(eventHistory') <= MaxEvents

Next ==
    \/ \E name \in Names : RegisterRootForms(name, FALSE) /\ Bounded
    \/ \E path \in PathInputs, name \in Names, c \in ControlInputs, options \in OptionInputs :
            RegisterFormElement(path, name, c.kind, c.disabled, options) /\ Bounded
    \/ \E path \in PathInputs : RemoveFormElement(path)
    \/ \E path \in PathInputs, exceptions \in SUBSET Names : DisableAllExcept(path, exceptions)
    \/ Subscribe
    \/ Deliver
    \/ Return
    \/ Forget

Spec == Init /\ [][Next]_vars

----------------------------------------------------------------------------
(* The demo: DemoAppComponent and its three child components, which share the
   FormService provided by DemoAppComponent. Angular runs the ngAfterViewInit
   hooks of the children that are there when the view is first checked in the
   order of the template, and then the hook of DemoAppComponent; a child that
   is created later runs its hook later. *)

\* the children the template of DemoAppComponent places after c
After(c) ==
    CASE c = "personalInfo" -> {"address", "preferences"}
      [] c = "address"      -> {"preferences"}
      [] c = "preferences"  -> {}

\* until the hook of DemoAppComponent has run, the hooks run in template order
InTemplateOrder(c) ==
    comp["demoApp"].pc = "new" => \A d \in After(c) : comp[d].pc = "new"

Alive(c) ==
    /\ comp[c].pc = "new"
    /\ comp["demoApp"].pc # "destroyed"
    /\ InTemplateOrder(c)

\* a look into the history that never finds the event of the root form
HasNoEvent(hist) == FALSE

HasRootEvent(hist) ==
    \E i \in 1..Len(hist) : hist[i].type = "form" /\ hist[i].path = DemoForm

\* PersonalInfoComponent.ngAfterViewInit, AddressComponent.ngAfterViewInit:
\* the component subscribes its handler
ChildAfterViewInit(c) ==
    /\ Idle
    /\ Alive(c)
    /\ subs' = Subscribed(subs, observers, eventHistory, c).subs
    /\ observers' = Subscribed(subs, observers, eventHistory, c).observers
    /\ comp' = [comp EXCEPT ![c] = [pc |-> "init", sub |-> Len(subs) + 1]]
    /\ last' = Step("subscribe", TRUE, Len(subs) + 1)
    /\ UNCHANGED <<heap, eventHistory, stack, other>>

\* PreferencesComponent.ngAfterViewInit: registerForm() at once when the
\* history holds the root form's event, a subscription otherwise
PreferencesAfterViewInit ==
    /\ Idle
    /\ Alive("preferences")
    /\ IF HasRootEvent(eventHistory)
       THEN \E r \in {ElementCall(heap, eventHistory, stack, observers,
                                  StrPath(DemoForm), <<"preferences">>, "group", FALSE,
                                  OptionsOf("preferences"), 0)} :
                /\ heap' = r.heap
                /\ eventHistory' = r.eventHistory
                /\ stack' = r.stack
                /\ comp' = [comp EXCEPT !["preferences"] = [pc |-> "init", sub |-> 0]]
                /\ last' = Step("registerFormElement", r.event # NoEvent, 0)
                /\ UNCHANGED <<subs, observers, other>>
       ELSE /\ subs' = Subscribed(subs, observers, eventHistory, "preferences").subs
            /\ observers' = Subscribed(subs, observers, eventHistory, "preferences").observers
            /\ comp' = [comp EXCEPT !["preferences"] = [pc |-> "init", sub |-> Len(subs) + 1]]
            /\ last' = Step("subscribe", TRUE, Len(subs) + 1)
            /\ UNCHANGED <<heap, eventHistory, stack, other>>

\* DemoAppComponent.ngAfterViewInit: the logging observer is subscribed, then
\* the root form is registered
DemoAppAfterViewInit ==
    /\ Idle
    /\ comp["demoApp"].pc = "new"
    /\ \E o \in {Subscribed(subs, observers, eventHistory, "log")} :
         \E r \in {RootCall(heap, eventHistory, stack, o.observers, DemoForm, FALSE)} :
           /\ subs' = o.subs
           /\ observers' = o.observers
           /\ heap' = r.heap
           /\ eventHistory' = r.eventHistory
           /\ stack' = r.stack
    /\ comp' = [comp EXCEPT !["demoApp"] = [pc |-> "init", sub |-> Len(subs) + 1]]
    /\ last' = Step("registerRootForms", TRUE, 0)
    /\ UNCHANGED other

\* ngOnDestroy of a component, once the view has been initialised: its
\* subscription, if it has one, is closed
OnDestroy(c) ==
    /\ Idle
    /\ comp[c].pc = "init"
    /\ comp["demoApp"].pc # "new"
    /\ comp' = [comp EXCEPT ![c].pc = "destroyed"]
    /\ IF comp[c].sub = 0
       THEN UNCHANGED <<subs, observers>>
       ELSE /\ subs' = Closed(subs, comp[c].sub, Len(eventHistory))
            /\ observers' = Removed(observers, comp[c].sub)
    /\ last' = Step("ngOnDestroy", comp[c].sub # 0, comp[c].sub)
    /\ UNCHANGED <<heap, eventHistory, stack, other>>

NextDemo ==
    \/ \E c \in {"personalInfo", "address"} : ChildAfterViewInit(c)
    \/ PreferencesAfterViewInit
    \/ DemoAppAfterViewInit
    \/ \E c \in Components : OnDestroy(c)
    \/ Deliver
    \/ Return
    \/ Forget

SpecDemo == Init /\ [][NextDemo]_vars

----------------------------------------------------------------------------
(* Two services: two screens that each provide their own FormService. The
   controls of both live in the one heap. The variables eventHistory,
   observers, subs and stack, and the identities from 0, are those of the
   service the caller is working with; `other` and the identities from
   OtherForm are those of the service it is not working with. *)

\* the two services have the one mainForm
SameForm == MainForm

\* the mainForm of the second service; its controls follow it (a service
\* hands out the identities up to MaxEvents + 1)
OtherForm == MaxEvents + 2

\* the identity a control has when the caller turns to the other service
Ren(c) ==
    IF c < 0 THEN c ELSE IF c < OtherForm THEN c + OtherForm ELSE c - OtherForm

Turned(h) ==
    [c \in {Ren(d) : d \in DOMAIN h} |->
        [kind     |-> h[Ren(c)].kind,
         disabled |-> h[Ren(c)].disabled,
         controls |-> [i \in 1..Len(h[Ren(c)].controls) |->
                          [key  |-> h[Ren(c)].controls[i].key,
                           ctrl |-> Ren(h[Ren(c)].controls[i].ctrl)]],
         parent   |-> Ren(h[Ren(c)].parent)]]

TurnedEvents(hist) ==
    [i \in 1..Len(hist) |-> [hist[i] EXCEPT !.control = Ren(@)]]

\* two services just constructed: each has its own empty mainForm
InitTwo ==
    /\ heap = (MainForm :> NewControl("group", FALSE)) @@ (OtherForm :> NewControl("group", FALSE))
    /\ eventHistory = <<>>
    /\ observers = <<>>
    /\ subs = <<>>
    /\ stack = <<>>
    /\ comp = [c \in Components |-> [pc |-> "new", sub |-> 0]]
    /\ last = Step("none", FALSE, 0)
    /\ other = NewService

\* the caller turns to the other service
Turn ==
    /\ Idle
    /\ heap' = Turned(heap)
    /\ eventHistory' = TurnedEvents(other.eventHistory)
    /\ observers' = other.observers
    /\ subs' = other.subs
    /\ other' = [eventHistory |-> TurnedEvents(eventHistory),
                 observers    |-> observers,
                 subs         |-> subs]
    /\ last' = Step("turn", TRUE, 0)
    /\ UNCHANGED <<stack, comp>>

\* registerFormElement(path, controlName, control, optionsOrOverwrite) with a
\* control that exists already
GivenCall(h, hist, stk, obs, path, controlName, control, options) ==
    LET r == registerFormElement(h, path, controlName, control, options)
    IN  IF r.event = NoEvent
        THEN [heap |-> r.heap, eventHistory |-> hist, stack |-> stk, event |-> NoEvent]
        ELSE [heap         |-> r.heap,
              eventHistory |-> Append(hist, r.event),
              stack        |-> SubjectNext(stk, obs, Len(hist) + 1, 0),
              event        |-> r.event]

\* the controls attached below mainForm of the other service
OtherControls(h) == Descendants(h, OtherForm) \ {OtherForm}

\* a caller registers with this service a FormControl that is attached in
\* the other one
RegisterGiven(path, controlName, control, options) ==
    /\ Idle
    /\ control \in OtherControls(heap)
    /\ heap[control].kind = "leaf"
    /\ \E r \in {GivenCall(heap, eventHistory, stack, observers,
                          path, controlName, control, options)} :
           /\ heap' = r.heap
           /\ eventHistory' = r.eventHistory
           /\ stack' = r.stack
           /\ last' = Step("registerFormElement", r.event # NoEvent, 0)
    /\ UNCHANGED <<observers, subs, comp, other>>

\* the two histories together stay within MaxEvents, the subscribers of the
\* two services together within MaxSubs
BoundedTwo == Len(eventHistory') + Len(other.eventHistory) <= MaxEvents

NextTwo ==
    \/ \E name \in Names : RegisterRootForms(name, FALSE) /\ BoundedTwo
    \/ \E path \in PathInputs, name \in Names, c \in ControlInputs, options \in OptionInputs :
            RegisterFormElement(path, name, c.kind, c.disabled, options) /\ BoundedTwo
    \/ \E path \in PathInputs, name \in Names, c \in DOMAIN heap, options \in OptionInputs :
            RegisterGiven(path, name, c, options) /\ BoundedTwo
    \/ \E path \in PathInputs : RemoveFormElement(path)
    \/ \E path \in PathInputs, exceptions \in SUBSET Names : DisableAllExcept(path, exceptions)
    \/ Subscribe /\ Len(other.subs) + Len(subs) < MaxSubs
    \/ Deliver
    \/ Return
    \/ Forget
    \/ Turn

SpecTwo == InitTwo /\ [][NextTwo]_vars

----------------------------------------------------------------------------
(* Vocabulary of the properties *)

RECURSIVE NodeAt(_, _, _)
\* the node reached from c by following the segments child by child
NodeAt(h, c, segs) ==
    IF segs = <<>> THEN c
    ELSE IF \E i \in 1..Len(h[c].controls) : h[c].controls[i].key = Head(segs)
         THEN NodeAt(h, (CHOOSE e \in {h[c].controls[i] : i \in 1..Len(h[c].controls)} :
                            e.key = Head(segs)).ctrl, Tail(segs))
         ELSE Null

\* the segments lead from mainForm to a FormGroup
IsGroupAt(h, segs) ==
    NodeAt(h, MainForm, segs) # Null /\ h[NodeAt(h, MainForm, segs)].kind = "group"

GroupAt(h, segs) == NodeAt(h, MainForm, segs)

KeysOf(h, g) == [i \in 1..Len(h[g].controls) |-> h[g].controls[i].key]

HasChild(h, g, key) == \E i \in 1..Len(h[g].controls) : h[g].controls[i].key = key

\* the path argument that names `name` below `path`: p + '.' + name, and
\* [...p, name] for an array
Below(path, name) ==
    IF path.type = "string" THEN StrPath(path.v \o <<Dot>> \o name)
    ELSE ArrPath(Append(path.v, name))

\* the Group at segs holds a disabled child under key
MeetsDisabled(h, segs, key) ==
    /\ IsGroupAt(h, segs)
    /\ HasChild(h, GroupAt(h, segs), key)
    /\ h[NodeAt(h, GroupAt(h, segs), <<key>>)].disabled

\* what the properties quantify over: every path in both forms, names (without
\* a dot) among them one no call of the specification uses, controls of both
\* kinds in both states
AnyName == Names \cup {<<"c">>}

AnySegments ==
    {<<>>} \cup {<<n>> : n \in AnyName} \cup {<<n, m>> : n \in Names, m \in Names}

AnyPath ==
    {StrPath(Join(segs)) : segs \in AnySegments} \cup {ArrPath(segs) : segs \in AnySegments}

AnyControl == [kind : {"group", "leaf"}, disabled : BOOLEAN]

AnyIndex == 0..(MaxIndex + 1)

LastEvent == eventHistory[Len(eventHistory)]

----------------------------------------------------------------------------
(* C1: registerFormElement(p, k, n) with default options, then getControl(p.k) *)

\* C1 as stated: from every state, for every path p, key k and new node n,
\* getControl(p + '.' + k) after registerFormElement(p, k, n) returns n exactly
\* when p resolves to a Group.
C1_RoundTripIffGroup ==
    \A path \in AnyPath, name \in AnyName, c \in AnyControl :
        LET n == Len(eventHistory) + 1
            r == ElementCall(heap, eventHistory, stack, observers,
                             path, name, c.kind, c.disabled, DefaultOptions, 0)
        IN  (getControl(r.heap, Below(path, name)) = n)
                <=> IsGroupAt(heap, normalizePath(path))

\* C1 amended: getControl(p + '.' + k) after registerFormElement(p, k, n) with
\* default options returns n exactly when p resolves to a Group that holds no
\* child under k (a child already there, enabled or disabled, stays).
C1_RoundTrip ==
    \A path \in AnyPath, name \in AnyName, c \in AnyControl :
        LET n == Len(eventHistory) + 1
            r == ElementCall(heap, eventHistory, stack, observers,
                             path, name, c.kind, c.disabled, DefaultOptions, 0)
        IN  (getControl(r.heap, Below(path, name)) = n)
                <=> /\ IsGroupAt(heap, normalizePath(path))
                    /\ ~HasChild(heap, GroupAt(heap, normalizePath(path)), name)

\* a registration below a registered form has just attached its control, which
\* the event's path finds; the same group holds a sibling a later call may hit
C1_Witness ==
    /\ last.op = "registerFormElement" /\ last.ok
    /\ Len(Split(LastEvent.path)) = 2
    /\ getControl(heap, StrPath(LastEvent.path)) = LastEvent.control

----------------------------------------------------------------------------
(* C2: a key already held by the Group, overwrite false or absent *)

\* the optionsOrOverwrite values that do not ask for an overwrite, with and
\* without insertAtIndex
KeepingOptions ==
    {BoolOption(FALSE)}
        \cup {ObjOption(has, FALSE, i) : has \in BOOLEAN, i \in {Undefined} \cup AnyIndex}

\* C2: in every state, when the Group resolved from path already holds a child
\* under controlName, enabled or disabled, and overwrite is false or absent,
\* registerFormElement returns null, the child under controlName is the node it
\* was, the key order of the Group is unchanged, the event history keeps its
\* length and no observer is notified.
C2_DuplicateKeyKept ==
    \A path \in AnyPath, name \in AnyName :
        LET segs == normalizePath(path)
            g == GroupAt(heap, segs)
        IN  (IsGroupAt(heap, segs) /\ HasChild(heap, g, name)) =>
                \A c \in AnyControl, options \in KeepingOptions :
                    LET r == ElementCall(heap, eventHistory, stack, observers,
                                         path, name, c.kind, c.disabled, options, 0)
                    IN  /\ r.event = NoEvent
                        /\ NodeAt(r.heap, g, <<name>>) = NodeAt(heap, g, <<name>>)
                        /\ KeysOf(r.heap, g) = KeysOf(heap, g)
                        /\ Len(r.eventHistory) = Len(eventHistory)
                        /\ r.stack = stack

----------------------------------------------------------------------------
(* C3: insertAtIndex *)

Min(a, b) == IF a <= b THEN a ELSE b

\* the keys with key k taken out
Without(keys, k) == SelectSeq(keys, LAMBDA x : x # k)

\* keys with k put at position i, counted from 0
PutAt(keys, i, k) == SubSeq(keys, 1, i) \o <<k>> \o SubSeq(keys, i + 1, Len(keys))

\* C3: a successful registerFormElement with insertAtIndex = i >= 0 on a Group
\* with c children besides the key puts the key at position min(i, c) of the
\* Group's key order and keeps every other child, in the order they had.
C3_OrderedInsertion ==
    \A path \in AnyPath, name \in AnyName :
        LET segs == normalizePath(path)
            g == GroupAt(heap, segs)
        IN  IsGroupAt(heap, segs) =>
                \A c \in AnyControl, i \in AnyIndex, ow \in BOOLEAN :
                    LET r == ElementCall(heap, eventHistory, stack, observers,
                                         path, name, c.kind, c.disabled,
                                         ObjOption(TRUE, ow, i), 0)
                        others == Without(KeysOf(heap, g), name)
                    IN  r.event # NoEvent =>
                            /\ KeysOf(r.heap, g) = PutAt(others, Min(i, Len(others)), name)
                            /\ \A j \in 1..Len(others) :
                                   NodeAt(r.heap, g, <<others[j]>>) = NodeAt(heap, g, <<others[j]>>)

\* the same, for the calls that do not meet a disabled child under the key
C3_OrderedInsertionProbe ==
    \A path \in AnyPath, name \in AnyName :
        LET segs == normalizePath(path)
            g == GroupAt(heap, segs)
        IN  (IsGroupAt(heap, segs) /\ ~MeetsDisabled(heap, segs, name)) =>
                \A c \in AnyControl, i \in AnyIndex, ow \in BOOLEAN :
                    LET r == ElementCall(heap, eventHistory, stack, observers,
                                         path, name, c.kind, c.disabled,
                                         ObjOption(TRUE, ow, i), 0)
                        others == Without(KeysOf(heap, g), name)
                    IN  r.event # NoEvent =>
                            /\ KeysOf(r.heap, g) = PutAt(others, Min(i, Len(others)), name)
                            /\ NodeAt(r.heap, g, <<name>>) = Len(eventHistory) + 1
                            /\ \A j \in 1..Len(others) :
                                   NodeAt(r.heap, g, <<others[j]>>) = NodeAt(heap, g, <<others[j]>>)

----------------------------------------------------------------------------
(* C4: removeFormElement(p.k) after registerFormElement(p, k, n) *)

\* C4: for every Group path p, key k and node n, enabled or disabled, after a
\* successful registerFormElement(p, k, n), removeFormElement(p + '.' + k)
\* leaves getControl(p + '.' + k) returning null and the remaining children of
\* the Group in the order they had.
C4_RemoveAfterRegister ==
    \A path \in AnyPath, name \in AnyName :
        LET segs == normalizePath(path)
            g == GroupAt(heap, segs)
        IN  IsGroupAt(heap, segs) =>
                \A c \in AnyControl, overwrite \in BOOLEAN :
                    LET r == ElementCall(heap, eventHistory, stack, observers,
                                         path, name, c.kind, c.disabled,
                                         BoolOption(overwrite), 0)
                        q == removeFormElement(r.heap, Below(path, name))
                    IN  r.event # NoEvent =>
                            /\ getControl(q.heap, Below(path, name)) = Null
                            /\ KeysOf(q.heap, g) = Without(KeysOf(r.heap, g), name)

\* the same, for an enabled node n that does not meet a disabled child under k
C4_RemoveAfterRegisterProbe ==
    \A path \in AnyPath, name \in AnyName :
        LET segs == normalizePath(path)
            g == GroupAt(heap, segs)
        IN  (IsGroupAt(heap, segs) /\ ~MeetsDisabled(heap, segs, name)) =>
                \A c \in AnyControl, overwrite \in BOOLEAN :
                    LET r == ElementCall(heap, eventHistory, stack, observers,
                                         path, name, c.kind, c.disabled,
                                         BoolOption(overwrite), 0)
                        q == removeFormElement(r.heap, Below(path, name))
                    IN  (r.event # NoEvent /\ ~c.disabled) =>
                            /\ q.ret
                            /\ getControl(q.heap, Below(path, name)) = Null
                            /\ KeysOf(q.heap, g) = Without(KeysOf(r.heap, g), name)

----------------------------------------------------------------------------
(* C5: what the event history counts *)

\* the group at segs holds node n under key k
Attached(h, segs, k, n) ==
    IsGroupAt(h, segs) /\ NodeAt(h, GroupAt(h, segs), <<k>>) = n

\* hist is `before` with exactly the entries `more` after it
Extends(hist, before, more) ==
    /\ Len(hist) = Len(before) + more
    /\ SubSeq(hist, 1, Len(before)) = before

\* C5: the history grows by one entry, put last, with every registerRootForms
\* call and every registerFormElement call that attached its node, and by none
\* with a call that returned null or attached nothing; so its length is the
\* number of those calls and its order is theirs.
C5_HistoryAccounting ==
    /\ \A name \in AnyName :
           LET r == RootCall(heap, eventHistory, stack, observers, name, FALSE)
           IN  Extends(r.eventHistory, eventHistory, 1)
    /\ \A path \in AnyPath, name \in AnyName, c \in AnyControl,
             options \in KeepingOptions \cup {BoolOption(TRUE)} :
           LET n == Len(eventHistory) + 1
               r == ElementCall(heap, eventHistory, stack, observers,
                                path, name, c.kind, c.disabled, options, 0)
               did == r.event # NoEvent /\ Attached(r.heap, normalizePath(path), name, n)
           IN  Extends(r.eventHistory, eventHistory, IF did THEN 1 ELSE 0)

\* the same, for the calls that do not meet a disabled child under the key
C5_HistoryAccountingProbe ==
    /\ \A name \in AnyName :
           LET r == RootCall(heap, eventHistory, stack, observers, name, FALSE)
           IN  Extends(r.eventHistory, eventHistory, 1)
    /\ \A path \in AnyPath, name \in AnyName :
           LET segs == normalizePath(path)
           IN  ~MeetsDisabled(heap, segs, name) =>
               \A c \in AnyControl, options \in KeepingOptions \cup {BoolOption(TRUE)} :
                   LET n == Len(eventHistory) + 1
                       r == ElementCall(heap, eventHistory, stack, observers,
                                        path, name, c.kind, c.disabled, options, 0)
                       did == r.event # NoEvent /\ Attached(r.heap, segs, name, n)
                   IN  /\ Extends(r.eventHistory, eventHistory, IF did THEN 1 ELSE 0)
                       /\ did <=> r.event # NoEvent

----------------------------------------------------------------------------
(* C6, C7: what an observer receives *)

Subscribers == 1..Len(subs)

\* the last history index emitted while subscriber s was subscribed
Until(s) == IF subs[s].closed THEN subs[s].unsubAt ELSE Len(eventHistory)

Received(s, e) == \E j \in 1..Len(subs[s].received) : subs[s].received[j] = e

\* a broadcast of entry e in progress has yet to invoke s
Pending(s, e) ==
    \E f \in 1..Len(stack) :
        /\ stack[f].ev = e
        /\ \E k \in stack[f].i..Len(stack[f].copy) : stack[f].copy[k] = s

\* C6: an observer subscribed after N events is never invoked for one of the
\* N, and is invoked once, never twice and (once the broadcast has come to it)
\* never zero times, for every event emitted between its subscription and its
\* unsubscription, events emitted from inside a handler included.
C6_ExactlyOnce ==
    \A s \in Subscribers :
        /\ \A j \in 1..Len(subs[s].received) : subs[s].received[j] > subs[s].subAt
        /\ \A j, k \in 1..Len(subs[s].received) :
               j # k => subs[s].received[j] # subs[s].received[k]
        /\ \A e \in (subs[s].subAt + 1)..Until(s) : Received(s, e) \/ Pending(s, e)

\* an observer received entry k before entry j < k: k was emitted from inside
\* a handler while j was being broadcast
ReceivedNested(s) ==
    \E j, k \in 1..Len(subs[s].received) :
        j < k /\ subs[s].received[j] > subs[s].received[k]

\* every broadcast is over; one observer subscribed after an event and has
\* received a later one, another has received an event emitted from a handler
C6_Witness ==
    /\ stack = <<>>
    /\ \E s \in Subscribers : subs[s].subAt >= 1 /\ subs[s].received # <<>>
    /\ \E s \in Subscribers : ReceivedNested(s)

\* C7: every observer receives its events in emission order, the order of
\* getFormEventHistory(), also when the handler of an earlier observer calls
\* registerFormElement while the event is being broadcast.
C7_DeliveryOrder ==
    \A s \in Subscribers :
        \A j, k \in 1..Len(subs[s].received) :
            j < k => subs[s].received[j] < subs[s].received[k]

----------------------------------------------------------------------------
(* C8: disableAllExcept on a Group *)

\* C8: after disableAllExcept(p, exceptions) on a path p that resolves to a
\* Group, every direct child whose key is not in exceptions is disabled, and
\* every direct child whose key is in exceptions has the status it had; the
\* Group holds the children it held.
C8_DisableAllExcept ==
    \A path \in AnyPath, exceptions \in SUBSET AnyName :
        LET segs == normalizePath(path)
            g == GroupAt(heap, segs)
            after == disableAllExcept(heap, path, exceptions)
        IN  IsGroupAt(heap, segs) =>
                /\ after[g].controls = heap[g].controls
                /\ \A i \in 1..Len(heap[g].controls) :
                       LET child == heap[g].controls[i]
                       IN  IF child.key \in exceptions
                           THEN after[child.ctrl].disabled = heap[child.ctrl].disabled
                           ELSE after[child.ctrl].disabled

\* disableAllExcept has just run and a registered form holds a FormGroup, which
\* was registered enabled, disabled
C8_Witness ==
    /\ last.op = "disableAllExcept"
    /\ \E n \in Names :
           /\ IsGroupAt(heap, <<n>>)
           /\ \E i \in 1..Len(heap[GroupAt(heap, <<n>>)].controls) :
                  LET child == heap[GroupAt(heap, <<n>>)].controls[i].ctrl
                  IN  heap[child].kind = "group" /\ heap[child].disabled

----------------------------------------------------------------------------
(* C9: a path that does not resolve to a Group *)

AnyOptions ==
    KeepingOptions \cup {BoolOption(TRUE)} \cup {ObjOption(TRUE, TRUE, i) : i \in AnyIndex}

\* C9: when a segment of path is missing from the tree or names a Leaf, the
\* last segment included, registerFormElement returns null and leaves the
\* tree, the event history and the broadcasts as they were, whatever overwrite
\* and insertAtIndex are.
C9_UnresolvableParent ==
    \A path \in AnyPath :
        ~IsGroupAt(heap, normalizePath(path)) =>
            \A name \in AnyName, c \in AnyControl, options \in AnyOptions :
                LET r == ElementCall(heap, eventHistory, stack, observers,
                                     path, name, c.kind, c.disabled, options, 0)
                IN  /\ r.event = NoEvent
                    /\ r.heap = heap
                    /\ r.eventHistory = eventHistory
                    /\ r.stack = stack

\* a registerFormElement call has just returned null in a tree whose only
\* children are disabled Leaves: no key counts as taken there, so the call's
\* path did not resolve to a Group
C9_Witness ==
    /\ last.op = "registerFormElement" /\ ~last.ok
    /\ heap[MainForm].controls # <<>>
    /\ \A i \in 1..Len(heap[MainForm].controls) :
           LET child == heap[MainForm].controls[i].ctrl
           IN  heap[child].kind = "leaf" /\ heap[child].disabled

----------------------------------------------------------------------------
(* C10: registerRootForms *)

\* C10: after registerRootForms(name, group), getControl(name) returns group
\* whether or not mainForm held a child under name, every other child of
\* mainForm is kept, and exactly one event {type 'form', path name, no
\* control} is appended to the history and broadcast to the observers.
C10_RegisterRoot ==
    \A name \in AnyName :
        LET n == Len(eventHistory) + 1
            r == RootCall(heap, eventHistory, stack, observers, name, FALSE)
            others == Without(KeysOf(heap, MainForm), name)
        IN  /\ getControl(r.heap, StrPath(name)) = n
            /\ Without(KeysOf(r.heap, MainForm), name) = others
            /\ \A j \in 1..Len(others) :
                   NodeAt(r.heap, MainForm, <<others[j]>>) = NodeAt(heap, MainForm, <<others[j]>>)
            /\ Extends(r.eventHistory, eventHistory, 1)
            /\ r.eventHistory[n] = [type |-> "form", path |-> name, control |-> Undefined]
            /\ r.event = r.eventHistory[n]
            /\ r.stack = IF observers = <<>> THEN stack
                         ELSE Append(stack, [ev |-> n, copy |-> observers, i |-> 1, cont |-> 0])

\* registerRootForms has just replaced the child registered under the same
\* name by the call before, and its event is being broadcast
C10_Witness ==
    /\ last.op = "registerRootForms"
    /\ Len(eventHistory) = 2
    /\ eventHistory[1].path = eventHistory[2].path
    /\ getControl(heap, StrPath(LastEvent.path)) = 2
    /\ stack # <<>>

----------------------------------------------------------------------------
(* C11: removeFormElement and the event stream *)

\* C11: for every path and every state, whether removeFormElement returns
\* true or false, the event history after the call is the history before it
\* and no broadcast is started, so no observer handler is invoked.
C11_RemoveEmitsNothing ==
    \A path \in AnyPath :
        LET r == RemoveCall(heap, eventHistory, stack, observers, path)
        IN  /\ r.eventHistory = eventHistory
            /\ r.stack = stack

\* removeFormElement has just detached a control while an observer is
\* subscribed; the history holds the registrations and no broadcast runs
C11_Witness ==
    /\ last.op = "removeFormElement" /\ last.ok
    /\ observers # <<>>
    /\ Len(eventHistory) >= 1
    /\ stack = <<>>

----------------------------------------------------------------------------
(* C12: the history is append-only *)

\* a is the beginning of b
Prefix(a, b) == Len(a) <= Len(b) /\ SubSeq(b, 1, Len(a)) = a

\* C12: every step of every operation leaves the history it found as a prefix
\* of the history it leaves, so the history at an earlier point is a prefix of
\* the history at every later point: no entry is removed, replaced or moved.
C12_AppendOnly == [][Prefix(eventHistory, eventHistory')]_vars

\* the history holds two entries and a removal or disableAllExcept has run
\* after them
C12_Witness ==
    /\ Len(eventHistory) >= 2
    /\ last.op \in {"removeFormElement", "disableAllExcept"}
    /\ last.ok

----------------------------------------------------------------------------
(* C13: the tree and the history when a broadcast starts *)

\* the broadcast a call started has invoked no handler yet
BroadcastStarts(stk, before) == Len(stk) = Len(before) + 1 /\ stk[Len(stk)].i = 1

\* C13: when the broadcast of an event e starts, e is the newest entry of the
\* history and getControl(e.path) returns the node the call registered
\* (e.control for 'formElement', the group for 'form').
C13_MutationBeforeEmission ==
    /\ \A name \in AnyName :
           LET n == Len(eventHistory) + 1
               r == RootCall(heap, eventHistory, stack, observers, name, FALSE)
           IN  BroadcastStarts(r.stack, stack) =>
                   /\ r.stack[Len(r.stack)].ev = Len(r.eventHistory)
                   /\ r.eventHistory[Len(r.eventHistory)] = r.event
                   /\ getControl(r.heap, StrPath(r.event.path)) = n
    /\ \A path \in AnyPath, name \in AnyName, c \in AnyControl, options \in AnyOptions :
           LET n == Len(eventHistory) + 1
               r == ElementCall(heap, eventHistory, stack, observers,
                                path, name, c.kind, c.disabled, options, 0)
           IN  BroadcastStarts(r.stack, stack) =>
                   /\ r.stack[Len(r.stack)].ev = Len(r.eventHistory)
                   /\ r.eventHistory[Len(r.eventHistory)] = r.event
                   /\ r.event.control = n
                   /\ getControl(r.heap, StrPath(r.event.path)) = n

\* the same, for registerRootForms and for the calls of registerFormElement
\* that do not meet a disabled child under the key
C13_MutationBeforeEmissionProbe ==
    /\ \A name \in AnyName :
           LET n == Len(eventHistory) + 1
               r == RootCall(heap, eventHistory, stack, observers, name, FALSE)
           IN  BroadcastStarts(r.stack, stack) =>
                   /\ r.stack[Len(r.stack)].ev = Len(r.eventHistory)
                   /\ r.eventHistory[Len(r.eventHistory)] = r.event
                   /\ getControl(r.heap, StrPath(r.event.path)) = n
    /\ \A path \in AnyPath, name \in AnyName :
           ~MeetsDisabled(heap, normalizePath(path), name) =>
               \A c \in AnyControl, options \in AnyOptions :
                   LET n == Len(eventHistory) + 1
                       r == ElementCall(heap, eventHistory, stack, observers,
                                        path, name, c.kind, c.disabled, options, 0)
                   IN  BroadcastStarts(r.stack, stack) =>
                           /\ r.stack[Len(r.stack)].ev = Len(r.eventHistory)
                           /\ r.eventHistory[Len(r.eventHistory)] = r.event
                           /\ r.event.control = n
                           /\ getControl(r.heap, StrPath(r.event.path)) = n

----------------------------------------------------------------------------
(* C14: the two forms of a path *)

\* segment lists that have a dotted string form: at least one segment, the
\* empty segment included ('' is ['']; no string stands for [])
DottedSegments == (AnySegments \ {<<>>}) \cup {<< <<>> >>}

\* C14: from the same state, registerFormElement, removeFormElement and
\* getControl give the same return value, the same tree, the same history
\* (same event path) and the same broadcast for the dotted string and for the
\* array of its segments.
C14_PathForms ==
    \A segs \in DottedSegments :
        /\ getControl(heap, StrPath(Join(segs))) = getControl(heap, ArrPath(segs))
        /\ RemoveCall(heap, eventHistory, stack, observers, StrPath(Join(segs)))
               = RemoveCall(heap, eventHistory, stack, observers, ArrPath(segs))
        /\ \A name \in AnyName, c \in AnyControl, options \in AnyOptions :
               ElementCall(heap, eventHistory, stack, observers, StrPath(Join(segs)),
                           name, c.kind, c.disabled, options, 0)
                   = ElementCall(heap, eventHistory, stack, observers, ArrPath(segs),
                                 name, c.kind, c.disabled, options, 0)

\* a Group 'a' holds an enabled child 'b': 'a.b' and ['a','b'] both remove it,
\* and both register below it when it is a Group
C14_Witness ==
    /\ IsGroupAt(heap, << <<"a">> >>)
    /\ getControl(heap, StrPath(<<"a", Dot, "b">>)) # Null
    /\ RemoveCall(heap, eventHistory, stack, observers, StrPath(<<"a", Dot, "b">>)).ret
    /\ RemoveCall(heap, eventHistory, stack, observers, ArrPath(<< <<"a">>, <<"b">> >>)).ret
    /\ last.op = "registerFormElement" /\ last.ok

----------------------------------------------------------------------------
(* C15: the history as a registration check *)

\* eventHistory.find(event => event.type === 'form' && event.path === name)
HasFormEvent(hist, name) ==
    \E i \in 1..Len(hist) : hist[i].type = "form" /\ hist[i].path = name

\* getControl(name) returns a Group
IsRootForm(h, name) ==
    /\ getControl(h, StrPath(name)) # Null
    /\ h[getControl(h, StrPath(name))].kind = "group"

\* registerFormElement(name, key, node) returns an event for every key the
\* Group under name does not hold
TakesFreshKeys(h, hist, stk, obs, name) ==
    \A key \in AnyName :
        ~HasChild(h, getControl(h, StrPath(name)), key) =>
            \A c \in AnyControl, options \in AnyOptions :
                ElementCall(h, hist, stk, obs, StrPath(name), key,
                            c.kind, c.disabled, options, 0).event # NoEvent

Registered(h, hist, stk, obs, name) ==
    IsRootForm(h, name) /\ TakesFreshKeys(h, hist, stk, obs, name)

\* C15, as stated: in every reachable state a 'form' event for name in the
\* history means that name is a registered Group, below which a fresh key can
\* be registered.
C15_HistoryMeansRegistered ==
    \A name \in AnyName :
        HasFormEvent(eventHistory, name) =>
            Registered(heap, eventHistory, stack, observers, name)

\* the step removed name from the root, or attached a Leaf under name there
Unregisters(name) ==
    \/ /\ last'.op = "removeFormElement" /\ last'.ok
       /\ getControl(heap', StrPath(name)) = Null
    \/ /\ last'.op = "registerFormElement" /\ last'.ok
       /\ eventHistory'[Len(eventHistory')].type = "formElement"
       /\ eventHistory'[Len(eventHistory')].path = name
       /\ getControl(heap', StrPath(name)) = eventHistory'[Len(eventHistory')].control
       /\ heap'[eventHistory'[Len(eventHistory')].control].kind = "leaf"

\* C15, amended: the step that appends the 'form' event for name leaves name
\* a registered Group; a name with a 'form' event stays one through every
\* step except a removeFormElement of name and a registerFormElement that
\* attaches a Leaf under name at the root, and the history keeps the event
\* through these two; and whenever a step changes the tree, a registered
\* Group with a 'form' event takes a registration under every fresh key.
C15_RegisteredUntilRemoved ==
    [][\A name \in AnyName :
           /\ (HasFormEvent(eventHistory', name) /\ ~HasFormEvent(eventHistory, name))
                  => IsRootForm(heap', name)
           /\ (HasFormEvent(eventHistory, name) /\ IsRootForm(heap, name)
                   /\ ~IsRootForm(heap', name))
                  => Unregisters(name) /\ HasFormEvent(eventHistory', name)
           /\ (heap' # heap /\ HasFormEvent(eventHistory', name) /\ IsRootForm(heap', name))
                  => TakesFreshKeys(heap', eventHistory', stack', observers', name)]_vars

\* a component found the 'form' event of 'a' and registered a child below it
C15_Witness ==
    /\ HasFormEvent(eventHistory, <<"a">>)
    /\ Registered(heap, eventHistory, stack, observers, <<"a">>)
    /\ last.op = "registerFormElement" /\ last.ok
    /\ Len(eventHistory) = 2
    /\ eventHistory[2].type = "formElement"
    /\ getControl(heap, StrPath(eventHistory[2].path)) = eventHistory[2].control
    /\ heap[eventHistory[2].control].parent = getControl(heap, StrPath(<<"a">>))

----------------------------------------------------------------------------
(* C16: the result of removeFormElement *)

Front(segs) == SubSeq(segs, 1, Len(segs) - 1)

\* the prefix of segs leads to a Group that holds a child under the last segment
HoldsLast(h, segs) ==
    /\ segs # <<>>
    /\ IsGroupAt(h, Front(segs))
    /\ HasChild(h, GroupAt(h, Front(segs)), segs[Len(segs)])

\* what removeFormElement(path) returned and left, against HoldsLast
RemoveResult(h, path) ==
    LET segs == normalizePath(path)
        r == removeFormElement(h, path)
    IN  IF HoldsLast(h, segs)
        THEN /\ r.ret
             /\ KeysOf(r.heap, GroupAt(h, Front(segs)))
                    = Without(KeysOf(h, GroupAt(h, Front(segs))), segs[Len(segs)])
             /\ NodeAt(r.heap, MainForm, segs) = Null
        ELSE ~r.ret /\ r.heap = h

\* C16: removeFormElement returns true exactly when the prefix of the path
\* resolves to a Group that holds a child, enabled or disabled, under the last
\* segment, and then the child is detached; otherwise it returns false and
\* the tree is unchanged.
C16_RemoveResult == \A path \in AnyPath : RemoveResult(heap, path)

\* the same, for the paths whose last segment names no disabled child
C16_RemoveResultProbe ==
    \A path \in AnyPath :
        (normalizePath(path) = <<>>
            \/ ~MeetsDisabled(heap, Front(normalizePath(path)),
                              normalizePath(path)[Len(normalizePath(path))]))
            => RemoveResult(heap, path)

----------------------------------------------------------------------------
(* C17: two services *)

\* both services as their constructors leave them
FreshlyMade ==
    /\ heap[MainForm].controls = <<>> /\ heap[OtherForm].controls = <<>>
    /\ eventHistory = <<>> /\ other.eventHistory = <<>>
    /\ observers = <<>> /\ other.observers = <<>>

\* the tree of the service the caller is not working with
OtherTree(h) == [c \in Descendants(h, OtherForm) |-> h[c]]

\* the step left the tree, the history and the observers of that service alone
Isolated == other' = other /\ OtherTree(heap') = OtherTree(heap)

\* the service a control was made for
Side(c) == c >= OtherForm

\* no control is, or has been, attached in the tree of a service it was not
\* made for: parents and children are of the same service
Separate(h) ==
    \A c \in DOMAIN h :
        /\ h[c].parent # Null => Side(h[c].parent) = Side(c)
        /\ \A i \in 1..Len(h[c].controls) : Side(h[c].controls[i].ctrl) = Side(c)

\* C17, as stated: a new FormService has an empty root Group and an empty
\* history, and no operation on one service changes the tree, the history or
\* the observers of the other.
C17_Isolation ==
    FreshlyMade /\ [][last'.op # "turn" => Isolated]_vars

\* C17, amended: a new FormService has an empty root Group and an empty
\* history; no operation on one service changes the history or the observers
\* of the other; and none changes the tree of the other as long as every
\* control stays with the service it was made for.
C17_IsolationOfSeparate ==
    FreshlyMade
        /\ [][last'.op # "turn" =>
                 /\ other' = other
                 /\ (Separate(heap) /\ Separate(heap')) => Isolated]_vars

\* both services hold a control of their own, and the last call registered one
C17_Witness ==
    /\ Separate(heap)
    /\ Len(eventHistory) >= 1 /\ Len(other.eventHistory) >= 1
    /\ OtherControls(heap) # {}
    /\ Descendants(heap, MainForm) # {MainForm}
    /\ last.op = "registerFormElement" /\ last.ok

----------------------------------------------------------------------------
(* C18: overwrite *)

\* true, {overwrite: true}, {overwrite: true, insertAtIndex: i}
OverwritingOptions ==
    {BoolOption(TRUE), ObjOption(TRUE, TRUE, Undefined)}
        \cup {ObjOption(TRUE, TRUE, i) : i \in AnyIndex}

\* registerFormElement(path, name, control, options) replaced the child the
\* Group g at path held under name
Overwrites(path, name, g, c, options) ==
    LET n == Len(eventHistory) + 1
        old == NodeAt(heap, g, <<name>>)
        r == ElementCall(heap, eventHistory, stack, observers,
                         path, name, c.kind, c.disabled, options, 0)
    IN  /\ getControl(r.heap, Below(path, name)) = n
        /\ \A i \in 1..Len(r.heap[g].controls) : r.heap[g].controls[i].ctrl # old
        /\ Len(r.heap[g].controls) = Len(heap[g].controls)
        /\ Without(KeysOf(r.heap, g), name) = Without(KeysOf(heap, g), name)
        /\ InsertAtIndexOf(options) = Undefined
               => KeysOf(r.heap, g)[Len(r.heap[g].controls)] = name
        /\ r.event = FormEvent("formElement", Join(Append(normalizePath(path), name)), n)
        /\ r.eventHistory = Append(eventHistory, r.event)

\* C18: when the Group at path holds a child under name and overwrite is true,
\* getControl returns the new node, the old node is no child of the Group, the
\* child count is unchanged, the other children keep their order, the key is
\* last when insertAtIndex is absent, and one 'formElement' event is appended
\* and returned.
C18_Overwrite ==
    \A path \in AnyPath, name \in AnyName :
        (IsGroupAt(heap, normalizePath(path))
            /\ HasChild(heap, GroupAt(heap, normalizePath(path)), name)) =>
                \A c \in AnyControl, options \in OverwritingOptions :
                    Overwrites(path, name, GroupAt(heap, normalizePath(path)), c, options)

\* the same, when the child the Group holds under name is enabled
C18_OverwriteProbe ==
    \A path \in AnyPath, name \in AnyName :
        (IsGroupAt(heap, normalizePath(path))
            /\ HasChild(heap, GroupAt(heap, normalizePath(path)), name)
            /\ ~MeetsDisabled(heap, normalizePath(path), name)) =>
                \A c \in AnyControl, options \in OverwritingOptions :
                    Overwrites(path, name, GroupAt(heap, normalizePath(path)), c, options)

----------------------------------------------------------------------------
(* C19: disableAllExcept on a path that names no Group *)

\* C19: when formPath does not resolve, or resolves to a Leaf, disableAllExcept
\* changes no status, leaves the tree and the history as they were and starts
\* no broadcast, whatever the exceptions are.
C19_DisableNoGroup ==
    \A path \in AnyPath :
        ~IsGroupAt(heap, normalizePath(path)) =>
            \A exceptions \in SUBSET AnyName :
                DisableCall(heap, eventHistory, stack, observers, path, exceptions)
                    = [heap |-> heap, eventHistory |-> eventHistory, stack |-> stack]

\* disableAllExcept was called while the root held an enabled Group, an
\* enabled child of it and a Leaf, and they are still as they were
C19_Witness ==
    /\ last.op = "disableAllExcept"
    /\ \E name \in Names, leaf \in Names :
           /\ IsGroupAt(heap, <<name>>)
           /\ ~heap[GroupAt(heap, <<name>>)].disabled
           /\ NodeAt(heap, MainForm, <<leaf>>) # Null
           /\ ~IsGroupAt(heap, <<leaf>>)
    /\ ~IsGroupAt(heap, << <<"c">> >>)
    /\ Len(eventHistory) = 2

----------------------------------------------------------------------------
(* C20: getControl *)

\* segment lists one longer than the deepest control, and one with an empty
\* segment
LongSegments == {<<n, m, k>> : n \in Names, m \in Names, k \in Names} \cup {<< <<>> >>}

\* every path of AnyPath and of LongSegments, in both forms
LookupPaths ==
    AnyPath \cup {StrPath(Join(segs)) : segs \in LongSegments}
            \cup {ArrPath(segs) : segs \in LongSegments}

\* C20: getControl(path) is the node reached from the root by following the
\* segments child by child, and null as soon as a segment names no child of
\* the node reached so far; a Leaf has no child, and a disabled node is
\* followed like an enabled one.
C20_GetControl ==
    \A path \in LookupPaths :
        getControl(heap, path) = NodeAt(heap, MainForm, normalizePath(path))

\* a Group that is disabled holds a disabled Leaf under 'b': getControl finds
\* the Group and the Leaf, and nothing past the Leaf or under another name
C20_Witness ==
    \E name \in Names :
        /\ IsGroupAt(heap, <<name>>)
        /\ heap[GroupAt(heap, <<name>>)].disabled
        /\ getControl(heap, StrPath(name)) = GroupAt(heap, <<name>>)
        /\ getControl(heap, ArrPath(<<name, <<"b">> >>)) # Null
        /\ heap[getControl(heap, ArrPath(<<name, <<"b">> >>))].kind = "leaf"
        /\ heap[getControl(heap, ArrPath(<<name, <<"b">> >>))].disabled
        /\ getControl(heap, StrPath(name \o <<Dot, "b", Dot, "b">>)) = Null
        /\ getControl(heap, ArrPath(<<name, <<"c">> >>)) = Null
        /\ getControl(heap, ArrPath(<< <<"c">> >>)) = Null

----------------------------------------------------------------------------
(* C21: unsubscription *)

\* an observer that has not unsubscribed has received every event emitted
\* since it subscribed, or a broadcast in progress has yet to come to it
KeepsReceiving ==
    \A s \in Subscribers :
        ~subs[s].closed =>
            \A e \in (subs[s].subAt + 1)..Len(eventHistory) : Received(s, e) \/ Pending(s, e)

\* the handler of an observer that has unsubscribed is not invoked
NotInvokedAgain ==
    \A s \in Subscribers : subs[s].closed => subs'[s].received = subs[s].received

\* C21: an observer keeps receiving every event until it unsubscribes, and
\* once it has unsubscribed its handler is never invoked again, also while the
\* broadcast during which it unsubscribed, from inside its own handler and
\* after its re-entrant registerFormElement, is still in progress.
C21_Unsubscription == []KeepsReceiving /\ [][NotInvokedAgain]_vars

\* a child component has unsubscribed inside its handler, the broadcast of the
\* root form's event is still in progress, and another handler has emitted an
\* event since, which the first has not received
C21_Witness ==
    /\ stack # <<>>
    /\ stack[1].ev = 1
    /\ \E s \in Subscribers :
           /\ subs[s].closed
           /\ subs[s].handler # "log"
           /\ Received(s, 1)
           /\ Len(eventHistory) > subs[s].unsubAt
           /\ ~Received(s, Len(eventHistory))

----------------------------------------------------------------------------
(* C22, C23: the demo once the root form is registered *)

Children == {"personalInfo", "address", "preferences"}

\* the three child components subscribed before registerRootForms('demoForm')
\* was called and were still subscribed when it was, and that call has returned
AllSubscribedFirst ==
    /\ HasRootEvent(eventHistory)
    /\ stack = <<>>
    /\ \A c \in Children :
           /\ comp[c].sub # 0
           /\ subs[comp[c].sub].subAt = 0
           /\ subs[comp[c].sub].closed => subs[comp[c].sub].unsubAt >= 1

DemoKeys == KeysOf(heap, GroupAt(heap, <<DemoForm>>))

\* C22: once the root 'demoForm' is registered, its children are in the order
\* [personalInfo, address, preferences], in every order in which the three
\* child components subscribed before.
C22_DemoOrder ==
    AllSubscribedFirst =>
        DemoKeys = << <<"personalInfo">>, <<"address">>, <<"preferences">> >>

\* the three children subscribed in the order of the template, the root form
\* has been registered, and when the call has returned 'address' is second,
\* between 'personalInfo' and 'preferences'
C22_Witness ==
    /\ AllSubscribedFirst
    /\ comp["personalInfo"].sub < comp["address"].sub
    /\ comp["address"].sub < comp["preferences"].sub
    /\ Len(DemoKeys) = 3
    /\ DemoKeys[2] = <<"address">>

\* the number of times the handler of subscriber s called registerFormElement
CallsOf(s) ==
    Cardinality({j \in 1..Len(subs[s].received) :
                    Answers(subs[s].handler, eventHistory[subs[s].received[j]])})

\* the history entries of the registrations of child c below 'demoForm'
EventsOf(c) ==
    {i \in 1..Len(eventHistory) :
        /\ eventHistory[i].type = "formElement"
        /\ eventHistory[i].path = Join(<<DemoForm, <<c>> >>)}

\* C23: when the three child components subscribed before
\* registerRootForms('demoForm'), then once that call has returned each child
\* has called registerFormElement exactly once, with a non-null result, all
\* three are children of 'demoForm' and all three have unsubscribed.
C23_AllRegisteredOnce ==
    AllSubscribedFirst =>
        \A c \in Children :
            /\ CallsOf(comp[c].sub) = 1
            /\ Cardinality(EventsOf(c)) = 1
            /\ \A i \in EventsOf(c) :
                   NodeAt(heap, MainForm, <<DemoForm, <<c>> >>) = eventHistory[i].control
            /\ subs[comp[c].sub].closed
            /\ ~\E k \in 1..Len(observers) : observers[k] = comp[c].sub

\* the three children subscribed first, the root form has been registered and
\* the call has just returned
C23_Witness ==
    /\ AllSubscribedFirst
    /\ last.op = "return"
    /\ Len(heap[GroupAt(heap, <<DemoForm>>)].controls) = 3

----------------------------------------------------------------------------
(* C24: the history-then-subscribe pattern of PreferencesComponent *)

\* PreferencesComponent is mounted, was not destroyed before the root form
\* was registered, the root form is registered and every call has returned
MountedWithRoot ==
    /\ stack = <<>>
    /\ IsGroupAt(heap, <<DemoForm>>)
    /\ comp["preferences"].pc # "new"
    /\ comp["preferences"].sub # 0 =>
           (subs[comp["preferences"].sub].closed =>
               subs[comp["preferences"].sub].unsubAt >= 1)

\* C24: a component that first looks for the root's 'form' event in the
\* history and subscribes only when it is absent registers its fragment under
\* the root exactly once, whether the root was registered before its mount or
\* after it.
C24_HistoryThenSubscribe ==
    /\ Cardinality(EventsOf("preferences")) <= 1
    /\ MountedWithRoot =>
           /\ Cardinality(EventsOf("preferences")) = 1
           /\ \A i \in EventsOf("preferences") :
                  NodeAt(heap, MainForm, <<DemoForm, <<"preferences">> >>)
                      = eventHistory[i].control

\* the root was registered before the mount: the component found the event in
\* the history, registered at once and never subscribed
C24_Witness ==
    /\ MountedWithRoot
    /\ comp["preferences"].sub = 0
    /\ EventsOf("preferences") # {}

\* the root was registered after the mount: the component had subscribed
C24_WitnessSubscribed ==
    /\ MountedWithRoot
    /\ comp["preferences"].sub # 0
    /\ subs[comp["preferences"].sub].closed

----------------------------------------------------------------------------
(* C25: destroy and recreate a child in its place *)

\* the child at position j (from 0) of the Group g at path is removed and the
\* key registered again with insertAtIndex j and the new control c; or it is
\* registered once with overwrite true and insertAtIndex j
RoundTrip(path, g, j, c) ==
    LET L == KeysOf(heap, g)
        k == L[j + 1]
        n == Len(eventHistory) + 1
        r1 == RemoveCall(heap, eventHistory, stack, observers,
                         ArrPath(Append(normalizePath(path), k)))
        r2 == ElementCall(r1.heap, r1.eventHistory, r1.stack, observers,
                          path, k, c.kind, c.disabled, ObjOption(FALSE, FALSE, j), 0)
        r3 == ElementCall(heap, eventHistory, stack, observers,
                          path, k, c.kind, c.disabled, ObjOption(TRUE, TRUE, j), 0)
    IN  /\ KeysOf(r2.heap, g) = L
        /\ NodeAt(r2.heap, g, <<k>>) = n
        /\ KeysOf(r3.heap, g) = L
        /\ NodeAt(r3.heap, g, <<k>>) = n
        /\ r3.heap = r2.heap

\* C25: for every Group with child order L and every child k at position j,
\* removeFormElement of k followed by registerFormElement of the same key with
\* insertAtIndex = j restores the order L with k bound to the new node, and so
\* does one registerFormElement with overwrite true and insertAtIndex = j.
C25_RoundTrip ==
    \A path \in AnyPath :
        IsGroupAt(heap, normalizePath(path)) =>
            \A j \in 0..(Len(heap[GroupAt(heap, normalizePath(path))].controls) - 1) :
                \A c \in AnyControl :
                    RoundTrip(path, GroupAt(heap, normalizePath(path)), j, c)

\* the same, when the child at position j is enabled
C25_RoundTripProbe ==
    \A path \in AnyPath :
        IsGroupAt(heap, normalizePath(path)) =>
            \A j \in 0..(Len(heap[GroupAt(heap, normalizePath(path))].controls) - 1) :
                ~heap[heap[GroupAt(heap, normalizePath(path))].controls[j + 1].ctrl].disabled =>
                    \A c \in AnyControl :
                        RoundTrip(path, GroupAt(heap, normalizePath(path)), j, c)

----------------------------------------------------------------------------
(* C26: the value registerFormElement returns *)

\* the result of registerFormElement(path, name, c, options) tells what the
\* call did
EventMatchesEffect(path, name, c, options) ==
    LET n == Len(eventHistory) + 1
        r == ElementCall(heap, eventHistory, stack, observers,
                         path, name, c.kind, c.disabled, options, 0)
    IN  /\ (r.event # NoEvent) <=> Attached(r.heap, normalizePath(path), name, n)
        /\ r.event # NoEvent =>
               /\ r.eventHistory = Append(eventHistory, r.event)
               /\ r.event = FormEvent("formElement",
                                      Join(Append(normalizePath(path), name)), n)
        /\ r.event = NoEvent =>
               /\ r.eventHistory = eventHistory
               /\ r.stack = stack

\* C26: registerFormElement returns a non-null event exactly when the call
\* attached control under controlName in the resolved Group; the event is the
\* entry the call appended to the history, of type 'formElement', with the
\* path segments and controlName joined with '.' as path and the node passed
\* in as control; when it returns null nothing was appended or broadcast.
C26_EventMatchesEffect ==
    \A path \in AnyPath, name \in AnyName, c \in AnyControl, options \in AnyOptions :
        EventMatchesEffect(path, name, c, options)

\* the same, when the resolved Group holds no disabled child under controlName
C26_EventMatchesEffectProbe ==
    \A path \in AnyPath, name \in AnyName :
        ~MeetsDisabled(heap, normalizePath(path), name) =>
            \A c \in AnyControl, options \in AnyOptions :
                EventMatchesEffect(path, name, c, options)

----------------------------------------------------------------------------
(* C27: removeFormElement called again with the argument of the first call *)

\* every node above the element the segments address is where it was
AncestorsKept(h, segs) ==
    \A i \in 0..(Len(segs) - 1) :
        NodeAt(h, MainForm, SubSeq(segs, 1, i)) = NodeAt(heap, MainForm, SubSeq(segs, 1, i))

\* removeFormElement(path), then removeFormElement with the same argument:
\* the same string, or the same array object as the first call left it
RemovedTwice(path) ==
    LET r1 == removeFormElement(heap, path)
        r2 == removeFormElement(r1.heap, r1.path)
    IN  /\ r1.path = path
        /\ AncestorsKept(r1.heap, normalizePath(path))
        /\ r2.ret = FALSE
        /\ r2.heap = r1.heap
        /\ AncestorsKept(r2.heap, normalizePath(path))

\* C27: a second removeFormElement with the path argument of the first (the
\* same string, or the very same array object) returns false and leaves the
\* tree unchanged; removeFormElement never modifies the path array it was
\* given and never removes an ancestor of the addressed element.
C27_RepeatedRemoval == \A path \in AnyPath : RemovedTwice(path)

\* the same, for the paths given as a string
C27_RepeatedRemovalProbe ==
    \A path \in AnyPath : path.type = "string" => RemovedTwice(path)

\* with the array ['a', 'b'] the second call removes the Group 'a', the
\* parent of the element the first call removed
C27_AncestorRemoved ==
    LET path == ArrPath(<< <<"a">>, <<"b">> >>)
        r1 == removeFormElement(heap, path)
        r2 == removeFormElement(r1.heap, r1.path)
    IN  r1.ret /\ r2.ret /\ NodeAt(r2.heap, MainForm, << <<"a">> >>) = Null

----------------------------------------------------------------------------
(* C28: what disableAllExcept leaves alone, and calling it twice *)

\* every Group of h has the children, under the keys and in the order, it has
\* in the current state
SameMembership(h) ==
    /\ DOMAIN h = DOMAIN heap
    /\ \A g \in DOMAIN heap :
           /\ h[g].controls = heap[g].controls
           /\ h[g].parent = heap[g].parent
           /\ h[g].kind = heap[g].kind

\* C28: for every path and exception list, disableAllExcept leaves the
\* membership and key order of every Group and the event history unchanged
\* and notifies no observer; called twice in a row with the same arguments it
\* leaves the state it leaves when called once.
C28_DisableFrame ==
    \A path \in AnyPath, exceptions \in SUBSET AnyName :
        LET r == DisableCall(heap, eventHistory, stack, observers, path, exceptions)
        IN  /\ SameMembership(r.heap)
            /\ r.eventHistory = eventHistory
            /\ r.stack = stack
            /\ DisableCall(r.heap, r.eventHistory, r.stack, observers, path, exceptions) = r

\* disableAllExcept has just disabled a child of a Group and left another,
\* named as an exception, enabled, while an observer is subscribed
C28_Witness ==
    /\ last.op = "disableAllExcept"
    /\ last.ok
    /\ observers # <<>>
    /\ \E g \in DOMAIN heap :
           /\ heap[g].kind = "group"
           /\ \E i, j \in 1..Len(heap[g].controls) :
                  /\ heap[heap[g].controls[i].ctrl].disabled
                  /\ ~heap[heap[g].controls[j].ctrl].disabled

----------------------------------------------------------------------------
(* C29: the boolean form of the optionsOrOverwrite argument *)

\* registerFormElement(path, name, c, options) from the current state
Registering(path, name, c, options) ==
    ElementCall(heap, eventHistory, stack, observers, path, name, c.kind, c.disabled, options, 0)

\* C29: from every state, registerFormElement(path, name, control, true)
\* returns what registerFormElement(path, name, control, {overwrite: true})
\* returns and leaves the same tree and history, and passing false or omitting
\* the argument is the same as passing {}: no overwrite, and a new key is
\* appended at the end.
C29_LegacyBoolean ==
    \A path \in AnyPath, name \in AnyName, c \in AnyControl :
        /\ Registering(path, name, c, BoolOption(TRUE))
               = Registering(path, name, c, ObjOption(TRUE, TRUE, Undefined))
        /\ Registering(path, name, c, BoolOption(FALSE))
               = Registering(path, name, c, ObjOption(FALSE, FALSE, Undefined))
        /\ Registering(path, name, c, DefaultOptions)
               = Registering(path, name, c, ObjOption(FALSE, FALSE, Undefined))
        /\ (IsGroupAt(heap, normalizePath(path))
                /\ ~HasChild(heap, GroupAt(heap, normalizePath(path)), name)) =>
               LET r == Registering(path, name, c, ObjOption(FALSE, FALSE, Undefined))
                   g == GroupAt(heap, normalizePath(path))
               IN  KeysOf(r.heap, g) = Append(KeysOf(heap, g), name)

\* a registration has just attached an enabled child; registering under its
\* key with true replaces it, with false it returns null
C29_Witness ==
    /\ last.op = "registerFormElement"
    /\ last.ok
    /\ \E name \in Names :
           /\ HasChild(heap, MainForm, name)
           /\ ~MeetsDisabled(heap, <<>>, name)
           /\ Registering(ArrPath(<<>>), name, [kind |-> "leaf", disabled |-> FALSE],
                          BoolOption(TRUE)).event # NoEvent
           /\ Registering(ArrPath(<<>>), name, [kind |-> "leaf", disabled |-> FALSE],
                          BoolOption(FALSE)).event = NoEvent

====
